---- MODULE Spec2Model ----
(***************************************************************************)
(* A model of csv-schema: the schema consistency checker                   *)
(* (checkSchemaConsistency, checkForeignKey, Column.Equal), the composite  *)
(* key set (Set.Exists, Set.Put), the value validators (ValidateDataType)  *)
(* and the data validator (Validate) driving FileSystemRepo.WithTable and  *)
(* Rows.Next.                                                              *)
(*                                                                         *)
(* Representation.  A Go string that the code inspects character by        *)
(* character (a cell of a row) is a sequence of one-character strings; a   *)
(* name (table, column, type) is a TLA+ string.  A Column (the linked      *)
(* chain Name/Tail) is the non-empty sequence of its names; a nil *Column  *)
(* is the empty sequence.  A table name, which WithTable searches for "..",*)
(* is a sequence of characters too.  A Go map is a function on the set of  *)
(* its keys.  An error value is a record [kind, table, row]; Nil is the    *)
(* nil error.                                                              *)
(***************************************************************************)
EXTENDS Integers, Sequences, FiniteSets, TLC

\* ------------------------------------------------------------------ bounds

\* Most tables in a schema handed to Validate.
MaxTables == 2
\* Most data rows a table's stream yields before it ends.
MaxRows == 2
\* Longest tuple handed to Set.Put / Set.Exists in the Set specification.
MaxKeyLen == 2

\* ------------------------------------------------------------- error values

Err(kind, table, row) == [kind |-> kind, table |-> table, row |-> row]
Nil == Err("nil", <<>>, 0)

\* The map literal map[K]V{} (also Set{}).
EmptyMap == [k \in {} |-> k]

MapPut(m, k, v) == [x \in (DOMAIN m) \cup {k} |-> IF x = k THEN v ELSE m[x]]

\* -------------------------------------------------------------- data types

DataTypeInt == "int"
DataTypeString == "string"
DataTypeBool == "bool"

Digits == {"0", "1", "2", "3", "4", "5", "6", "7", "8", "9"}

\* strconv.Atoi succeeds: an optional sign followed by at least one digit
\* (the cells of the model are far too short to overflow an int).
AtoiOk(value) ==
    LET body == IF Len(value) > 0 /\ value[1] \in {"+", "-"}
                THEN Tail(value) ELSE value
    IN  Len(body) >= 1 /\ \A k \in 1..Len(body) : body[k] \in Digits

\* ValidateDataType: "nil" (valid), "error" (illegal value) or "panic"
\* (the default branch of the switch).
ValidateDataType(dt, value) ==
    CASE dt = DataTypeInt -> IF AtoiOk(value) THEN "nil" ELSE "error"
      [] dt = DataTypeBool ->
            IF value \in {<<"t", "r", "u", "e">>, <<"f", "a", "l", "s", "e">>}
            THEN "nil" ELSE "error"
      [] dt = DataTypeString -> "nil"
      [] OTHER -> "panic"

\* ------------------------------------------------------------------ Column

\* Column.Len
ColumnLen(c) == Len(c)

\* Column.Equal: the receiver c is walked; when c has no Tail only the
\* names are compared.
RECURSIVE ColumnEqual(_, _)
ColumnEqual(c, other) ==
    IF Len(c) = 1
    THEN c[1] = other[1]
    ELSE Len(other) > 1 /\ c[1] = other[1] /\ ColumnEqual(Tail(c), Tail(other))

\* --------------------------------------------------------------------- Set

\* Set.Exists
RECURSIVE SetExists(_, _)
SetExists(s, ss) ==
    IF Len(ss) < 1
    THEN FALSE
    ELSE ss[1] \in DOMAIN s /\ SetExists(s[ss[1]], Tail(ss))

\* Set.Put: the Set after the call (the Go method mutates s in place).
RECURSIVE SetPut(_, _)
SetPut(s, ss) ==
    IF Len(ss) < 1
    THEN s
    ELSE LET next == IF ss[1] \in DOMAIN s THEN s[ss[1]] ELSE EmptyMap
         IN  MapPut(s, ss[1], SetPut(next, Tail(ss)))

\* ------------------------------------------------- checkSchemaConsistency

\* Index of the first column of `columns` named `name`, 0 when there is none
\* (the inner loops of lines 50-55 and 258-263).
RECURSIVE FirstIndex(_, _, _)
FirstIndex(columns, name, i) ==
    IF i > Len(columns) THEN 0
    ELSE IF columns[i].Name = name THEN i
    ELSE FirstIndex(columns, name, i + 1)

\* findSpecs: [err |-> some name of `column` is not a column of `table`,
\* specs |-> otherwise the specs found, in the order of `column`].
RECURSIVE findSpecs(_, _)
findSpecs(column, table) ==
    IF Len(column) = 0
    THEN [err |-> FALSE, specs |-> <<>>]
    ELSE LET i == FirstIndex(table.Columns, column[1], 1)
             rest == findSpecs(Tail(column), table)
         IN  IF i = 0 THEN [err |-> TRUE, specs |-> <<>>]
             ELSE IF rest.err THEN rest
             ELSE [err |-> FALSE, specs |-> <<table.Columns[i]>> \o rest.specs]

\* The table looked up for a foreign key: tableCheckers[fkm.ForeignTable].
ForeignTableFound(fkm, tableCheckers) == fkm.ForeignTable \in DOMAIN tableCheckers

\* checkForeignKey: the error returned (Nil when the mapping is accepted).
checkForeignKey(table, fkm, tableCheckers) ==
    IF ColumnLen(fkm.LocalColumn) # ColumnLen(fkm.ForeignColumn)
    THEN Err("FKTupleSize", table.Name, 0)
    ELSE IF ~ForeignTableFound(fkm, tableCheckers)
    THEN Err("FKTableNotFound", table.Name, 0)
    ELSE LET foreignTable == tableCheckers[fkm.ForeignTable].TableSpec
         IN  IF foreignTable.PrimaryKey = <<>>
             THEN Err("FKNoPrimaryKey", table.Name, 0)
             ELSE IF ~ColumnEqual(fkm.ForeignColumn, foreignTable.PrimaryKey)
             THEN Err("FKNotPrimaryKey", table.Name, 0)
             ELSE LET localSpecs == findSpecs(fkm.LocalColumn, table)
                      foreignSpecs == findSpecs(fkm.ForeignColumn, foreignTable)
                  IN  IF localSpecs.err
                      THEN Err("FKLocalColumnNotFound", table.Name, 0)
                      ELSE IF foreignSpecs.err
                      THEN Err("FKForeignColumnNotFound", table.Name, 0)
                      ELSE IF Len(foreignSpecs.specs) # Len(localSpecs.specs)
                      THEN Err("FKCountMismatch", table.Name, 0)
                      ELSE IF \E i \in 1..Len(foreignSpecs.specs) :
                                 foreignSpecs.specs[i].Type # localSpecs.specs[i].Type
                      THEN Err("FKTypeMismatch", table.Name, 0)
                      ELSE Nil

\* The first error of checkForeignKey over the mappings fks, in order.
RECURSIVE checkForeignKeys(_, _, _)
checkForeignKeys(table, fks, tableCheckers) ==
    IF Len(fks) = 0 THEN Nil
    ELSE LET e == checkForeignKey(table, Head(fks), tableCheckers)
         IN  IF e # Nil THEN e
             ELSE checkForeignKeys(table, Tail(fks), tableCheckers)

\* Column names are unique (lines 34-44).
ColumnNamesUnique(table) ==
    \A i, j \in 1..Len(table.Columns) :
        table.Columns[i].Name = table.Columns[j].Name => i = j

\* pkeyCols (lines 47-61): the index of each primary key name, in the
\* order of the key; an entry 0 marks a name that is not a column.
PkeyCols(table) ==
    [k \in 1..Len(table.PrimaryKey) |->
        FirstIndex(table.Columns, table.PrimaryKey[k], 1)]

\* Unique columns exist (lines 67-77).
UniqueColumnsExist(table) ==
    \A u \in 1..Len(table.UniqueColumns) :
        \A k \in 1..Len(table.UniqueColumns[u]) :
            FirstIndex(table.Columns, table.UniqueColumns[u][k], 1) # 0

\* One iteration of the loop of checkSchemaConsistency (lines 26-89) for
\* `table`, entered with the map `tcs`: the error it returns with (Nil when
\* the iteration falls through) and the map at the end of the iteration.
checkTable(table, tcs) ==
    IF table.Name \in DOMAIN tcs
    THEN [err |-> Err("TableExists", table.Name, 0), tcs |-> tcs]
    ELSE LET tcs1 == MapPut(tcs, table.Name,
                            [TableSpec |-> table, pkeyCols |-> <<>>])
             pkeyCols == PkeyCols(table)
             tcs2 == MapPut(tcs, table.Name,
                            [TableSpec |-> table, pkeyCols |-> pkeyCols])
         IN  IF ~ColumnNamesUnique(table)
             THEN [err |-> Err("ColumnExists", table.Name, 0), tcs |-> tcs1]
             ELSE IF \E k \in 1..Len(pkeyCols) : pkeyCols[k] = 0
             THEN [err |-> Err("PKeyColumnNotFound", table.Name, 0), tcs |-> tcs1]
             ELSE IF ~UniqueColumnsExist(table)
             THEN [err |-> Err("UniqueColumnNotFound", table.Name, 0), tcs |-> tcs2]
             ELSE [err |-> checkForeignKeys(table, table.ForeignKeys, tcs2),
                   tcs |-> tcs2]

\* checkSchemaConsistency from table number i on, entered with the map tcs.
RECURSIVE checkFrom(_, _, _)
checkFrom(sch, i, tcs) ==
    IF i > Len(sch) THEN [err |-> Nil, tcs |-> tcs]
    ELSE LET r == checkTable(sch[i], tcs)
         IN  IF r.err # Nil THEN [err |-> r.err, tcs |-> EmptyMap]
             ELSE checkFrom(sch, i + 1, r.tcs)

\* checkSchemaConsistency(schema): (schemaChecker, error).
checkSchemaConsistency(sch) == checkFrom(sch, 1, EmptyMap)

\* ------------------------------------------------------------ row checks

\* A header check that compares the header with the declared names as sets.
HeaderCheckAsSet(table, headers) ==
    IF Len(table.Columns) # Len(headers) THEN "HeaderCount"
    ELSE IF {headers[i] : i \in 1..Len(headers)}
              # {table.Columns[i].Name : i \in 1..Len(table.Columns)}
    THEN "HeaderName"
    ELSE "nil"

\* Lines 136-155: the header checks at the head of Validate's callback.
HeaderCheck(table, headers) ==
    IF Len(table.Columns) # Len(headers) THEN "HeaderCount"
    ELSE IF \E i \in 1..Len(table.Columns) : headers[i] # table.Columns[i].Name
    THEN "HeaderName"
    ELSE "nil"

\* Lines 170-184: the result of ValidateDataType at the first column, in
\* column order from i on, where it is not "nil".
RECURSIVE TypeCheck(_, _, _)
TypeCheck(table, row, i) ==
    IF i > Len(table.Columns) THEN "nil"
    ELSE LET r == ValidateDataType(table.Columns[i].Type, row[i])
         IN  IF r # "nil" THEN r ELSE TypeCheck(table, row, i + 1)

\* Lines 187-211: some not-null column holds the empty string.
NullFound(table, row) ==
    \E i \in 1..Len(table.Columns) : table.Columns[i].NotNull /\ row[i] = <<>>

\* Lines 218-220: the row projected onto the primary key columns.
PkeyBuf(pkeyCols, row) == [k \in 1..Len(pkeyCols) |-> row[pkeyCols[k]]]

\* rowChecks applied in order to one row (lines 157-231 and 234-243): the
\* kind of the first failing check ("nil": none, "panic": ValidateDataType
\* panicked) and the Set seen after it.
RowChecks(table, pkeyCols, s, row) ==
    IF Len(row) # Len(table.Columns) THEN [kind |-> "CellCount", seen |-> s]
    ELSE LET t == TypeCheck(table, row, 1)
         IN  IF t = "panic" THEN [kind |-> "panic", seen |-> s]
             ELSE IF t = "error" THEN [kind |-> "Type", seen |-> s]
             ELSE IF NullFound(table, row) THEN [kind |-> "Null", seen |-> s]
             ELSE IF table.PrimaryKey # <<>>
             THEN LET buf == PkeyBuf(pkeyCols, row)
                  IN  IF SetExists(s, buf)
                      THEN [kind |-> "DuplicateKey", seen |-> s]
                      ELSE [kind |-> "nil", seen |-> SetPut(s, buf)]
             ELSE [kind |-> "nil", seen |-> s]

\* ---------------------------------------------------------- FileSystemRepo

\* strings.Contains(table, "..")
ContainsDotDot(name) ==
    \E k \in 1..(Len(name) - 1) : name[k] = "." /\ name[k + 1] = "."

\* A WithTable that never closes its file.
DeferCloseMissing(files, table) == files

\* defer file.Close(): the open files once WithTable(table, f) has returned.
DeferClose(files, table) == files \ {table}

\* Lines 57-65 of WithTable: what it returns once f(rows) returned cbErr,
\* reading its own rows.Err (f was handed a copy of rows).
WithTableResult(table, callbackErr, ownRowsErr) ==
    IF callbackErr # Nil THEN callbackErr
    ELSE IF ownRowsErr # "" /\ ownRowsErr # "EOF" THEN Err("Read", table, 0)
    ELSE Nil

\* ------------------------------------------------------------------ inputs

ColumnSpec(name, type, notNull) == [Name |-> name, Type |-> type, NotNull |-> notNull]

TableSpec(name, pk, unique, fks, columns) ==
    [Name |-> name, PrimaryKey |-> pk, UniqueColumns |-> unique,
     ForeignKeys |-> fks, Columns |-> columns]

\* Sequences over S of length lo..hi.
SeqsOf(S, lo, hi) == UNION {[1..n -> S] : n \in lo..hi}

\* The cells a data file may hold: "", "1", "-2", "true".
Cells == {<<>>, <<"1">>, <<"-", "2">>, <<"t", "r", "u", "e">>}

\* The records csv.Reader.Read may return for a data line.
Records == SeqsOf(Cells, 1, 2)

\* The header lines a data file may start with.
Headers == {<<"id">>, <<"id", "name">>, <<"name", "id">>}

\* The table names of the schemas handed to Validate: t1, t2 and ..x.
TableNames == {<<"t", "1">>, <<"t", "2">>, <<".", ".", "x">>}

\* The column lists of those tables.  "float" is a type string outside the
\* closed set of data types.
TableColumns ==
    { <<ColumnSpec("id", DataTypeInt, TRUE), ColumnSpec("name", DataTypeString, FALSE)>>,
      <<ColumnSpec("id", DataTypeBool, FALSE), ColumnSpec("name", DataTypeInt, TRUE)>>,
      <<ColumnSpec("id", DataTypeString, FALSE)>>,
      <<ColumnSpec("id", DataTypeInt, FALSE), ColumnSpec("name", "float", TRUE)>> }

\* Their primary keys: none, (id), (name, id).
PrimaryKeys == {<<>>, <<"id">>, <<"name", "id">>}

Tables ==
    { TableSpec(n, pk, <<>>, <<>>, cols) :
        n \in TableNames, pk \in PrimaryKeys, cols \in TableColumns }

\* The schemas handed to Validate.
Schemas == SeqsOf(Tables, 1, MaxTables)

\* The schemas handed to checkSchemaConsistency alone: tables a and b with
\* unique columns and foreign keys.
CheckNames == {<<"a">>, <<"b">>}

CheckColumns ==
    { <<ColumnSpec("id", DataTypeInt, TRUE), ColumnSpec("name", DataTypeString, FALSE)>>,
      <<ColumnSpec("id", DataTypeInt, TRUE), ColumnSpec("id", DataTypeString, FALSE)>>,
      <<ColumnSpec("id", DataTypeInt, TRUE)>> }

CheckPrimaryKeys == {<<>>, <<"id">>, <<"id", "name">>}

CheckUniques == {<<>>, << <<"name">> >>}

CheckForeignKeys ==
    {<<>>} \cup
    { << [LocalColumn |-> l, ForeignTable |-> t, ForeignColumn |-> f] >> :
        l \in {<<"id">>, <<"name">>, <<"id", "name">>},
        t \in CheckNames,
        f \in {<<"id">>, <<"id", "name">>, <<"name", "id">>} }

CheckTables ==
    { TableSpec(n, pk, u, fks, cols) :
        n \in CheckNames, pk \in CheckPrimaryKeys, u \in CheckUniques,
        fks \in CheckForeignKeys, cols \in CheckColumns }

CheckSchemas == SeqsOf(CheckTables, 1, 2)

\* The tuples handed to Set.Put and Set.Exists in the Set specification.
SetValues == {<<"1">>, <<"x">>}
Tuples == SeqsOf(SetValues, 0, MaxKeyLen)

\* ------------------------------------------------------------------- state

VARIABLES
    schema,         \* the []TableSpec handed to Validate / checkSchemaConsistency
    pc,             \* the position of the running function
    err,            \* the error returned (Nil: none, or not yet returned)
    tableCheckers,  \* the map built by checkSchemaConsistency
    ci,             \* checkSchemaConsistency: number of the table of its loop
    ti,             \* Validate: number of the table of its loop (line 134)
    openFiles,      \* the table files open (os.Open'ed, not yet Close'd)
    wtRows,         \* WithTable's local rows (line 52)
    rows,           \* the callback's parameter rows, a copy of wtRows (line 135)
    cbErr,          \* the error the callback returned (line 57)
    seen,           \* the Set seen of the callback (line 214); the Set under test
    rowNum,         \* the loop counter i of line 233
    requested,      \* history: the table names WithTable was called with, in order
    pulled,         \* history: the calls of rows.Next() in the current callback
    ends,           \* history: per callback that left its loop, rows.Err at that point
    keys,           \* history: the primary key tuples of the rows that passed so far
    dupRow,         \* history: row number of the first row repeating a key (0: none)
    failedRow,      \* history: the row a row check failed on (<<>>: none)
    putLog,         \* history: the tuples Put into the Set under test
    query,          \* the last tuple asked of Exists (<<"none">> before any)
    answer          \* what Exists answered for it

vars == <<schema, pc, err, tableCheckers, ci, ti, openFiles, wtRows, rows, cbErr,
          seen, rowNum, requested, pulled, ends, keys, dupRow, failedRow, putLog, query,
          answer>>

checkVars == <<tableCheckers, ci>>
repoVars == <<openFiles, wtRows, rows, cbErr>>
rowVars == <<seen, rowNum, pulled, keys, dupRow, failedRow>>
setVars == <<putLog, query, answer>>

\* A Rows value.  Rows.CurrentRow is written by Next and read only by the row
\* checks of the same loop iteration (line 235): it is the record of the
\* action that models the iteration, not a variable.
NoRows == [Headers |-> <<>>, Err |-> ""]

\* Everything but the schema and the position, as it is before any call.
Blank ==
    /\ err = Nil
    /\ tableCheckers = EmptyMap
    /\ ci = 1
    /\ ti = 1
    /\ openFiles = {}
    /\ wtRows = NoRows
    /\ rows = NoRows
    /\ cbErr = Nil
    /\ seen = EmptyMap
    /\ rowNum = 2
    /\ requested = <<>>
    /\ pulled = 0
    /\ ends = <<>>
    /\ keys = {}
    /\ dupRow = 0
    /\ failedRow = <<>>
    /\ putLog = {}
    /\ query = <<"none">>
    /\ answer = FALSE

\* ------------------------------------- checkSchemaConsistency, table by table

InitCheck ==
    /\ schema \in CheckSchemas
    /\ pc = "check"
    /\ Blank

\* One iteration of the loop of line 26 that falls through to the next table.
CheckTableOk ==
    /\ pc = "check"
    /\ ci <= Len(schema)
    /\ LET r == checkTable(schema[ci], tableCheckers)
       IN  /\ r.err = Nil
           /\ tableCheckers' = r.tcs
           /\ ci' = ci + 1
    /\ UNCHANGED <<schema, pc, err, ti, repoVars, rowVars, requested, ends, setVars>>

\* One iteration that returns nil, err.
CheckTableFail ==
    /\ pc = "check"
    /\ ci <= Len(schema)
    /\ LET r == checkTable(schema[ci], tableCheckers)
       IN  /\ r.err # Nil
           /\ err' = r.err
           /\ tableCheckers' = EmptyMap
           /\ pc' = "checked"
    /\ UNCHANGED <<schema, ci, ti, repoVars, rowVars, requested, ends, setVars>>

\* Line 91: return tableCheckers, nil.
CheckReturn ==
    /\ pc = "check"
    /\ ci > Len(schema)
    /\ pc' = "checked"
    /\ UNCHANGED <<schema, err, checkVars, ti, repoVars, rowVars, requested, ends, setVars>>

NextCheck == CheckTableOk \/ CheckTableFail \/ CheckReturn

SpecCheck == InitCheck /\ [][NextCheck]_vars

\* ------------------------------------------------------ the Set, call by call

InitSet ==
    /\ schema = <<>>
    /\ pc = "set"
    /\ Blank

\* seen.Put(t)
DoPut(t) ==
    /\ pc = "set"
    /\ seen' = SetPut(seen, t)
    /\ putLog' = putLog \cup {t}
    /\ UNCHANGED <<schema, pc, err, checkVars, ti, repoVars, rowNum, pulled, keys,
                   dupRow, failedRow, requested, ends, query, answer>>

\* seen.Exists(t)
DoExists(t) ==
    /\ pc = "set"
    /\ query' = t
    /\ answer' = SetExists(seen, t)
    /\ UNCHANGED <<schema, pc, err, checkVars, ti, repoVars, rowVars, requested,
                   ends, putLog>>

NextSet == \E t \in Tuples : DoPut(t) \/ DoExists(t)

SpecSet == InitSet /\ [][NextSet]_vars

\* ---------------------------------------------------------------- Validate

Init ==
    /\ schema \in Schemas
    /\ pc = "start"
    /\ Blank

\* The table of the current iteration of the loop of line 134.
Table == schema[ti]

\* Lines 117-120: checkSchemaConsistency returned an error.
ValidateSchemaError ==
    /\ pc = "start"
    /\ LET r == checkSchemaConsistency(schema)
       IN  /\ r.err # Nil
           /\ err' = r.err
    /\ pc' = "done"
    /\ UNCHANGED <<schema, checkVars, ti, repoVars, rowVars, requested, ends, setVars>>

\* Lines 117-120: the schema is accepted; the loop of line 134 starts.
ValidateSchemaOk ==
    /\ pc = "start"
    /\ LET r == checkSchemaConsistency(schema)
       IN  /\ r.err = Nil
           /\ tableCheckers' = r.tcs
    /\ pc' = "table"
    /\ UNCHANGED <<schema, err, ci, ti, repoVars, rowVars, requested, ends, setVars>>

\* WithTable, lines 42-44: the table name holds "..".
WithTableIllegal ==
    /\ pc = "table"
    /\ ti <= Len(schema)
    /\ ContainsDotDot(Table.Name)
    /\ requested' = Append(requested, Table.Name)
    /\ err' = Err("IllegalIdentifier", Table.Name, 0)
    /\ pc' = "done"
    /\ UNCHANGED <<schema, checkVars, ti, repoVars, rowVars, ends, setVars>>

\* WithTable, lines 46-49: os.Open fails.
WithTableOpenError ==
    /\ pc = "table"
    /\ ti <= Len(schema)
    /\ ~ContainsDotDot(Table.Name)
    /\ requested' = Append(requested, Table.Name)
    /\ err' = Err("Open", Table.Name, 0)
    /\ pc' = "done"
    /\ UNCHANGED <<schema, checkVars, ti, repoVars, rowVars, ends, setVars>>

\* WithTable, lines 46-50: os.Open succeeds.
WithTableOpen ==
    /\ pc = "table"
    /\ ti <= Len(schema)
    /\ ~ContainsDotDot(Table.Name)
    /\ requested' = Append(requested, Table.Name)
    /\ openFiles' = openFiles \cup {Table.Name}
    /\ pc' = "opened"
    /\ UNCHANGED <<schema, err, checkVars, ti, wtRows, rows, cbErr, rowVars, ends,
                   setVars>>

\* OpenTable and lines 52-55: reading the header fails (e: io.EOF for an
\* empty file, or a parse error); WithTable returns rows.Err.
OpenTableError(e) ==
    /\ pc = "opened"
    /\ wtRows' = [Headers |-> <<>>, Err |-> e]
    /\ openFiles' = DeferClose(openFiles, Table.Name)
    /\ err' = Err("HeaderRead", Table.Name, 0)
    /\ pc' = "done"
    /\ UNCHANGED <<schema, checkVars, ti, rows, cbErr, rowVars, requested, ends,
                   setVars>>

\* OpenTable and lines 52-57: the header h is read; f is called with a copy
\* of rows.
OpenTableOk(h) ==
    /\ pc = "opened"
    /\ wtRows' = [Headers |-> h, Err |-> ""]
    /\ rows' = wtRows'
    /\ cbErr' = Nil
    /\ pulled' = 0
    /\ pc' = "callback"
    /\ UNCHANGED <<schema, err, checkVars, ti, openFiles, seen, rowNum, keys, dupRow,
                   failedRow,
                   requested, ends, setVars>>

\* Lines 136-155: a header check fails and the callback returns its error.
CallbackHeaderError ==
    /\ pc = "callback"
    /\ HeaderCheck(Table, rows.Headers) # "nil"
    /\ cbErr' = Err(HeaderCheck(Table, rows.Headers), Table.Name, 0)
    /\ pc' = "return"
    /\ UNCHANGED <<schema, err, checkVars, ti, openFiles, wtRows, rows, rowVars,
                   requested, ends, setVars>>

\* Lines 136-233: the header passes, rowChecks is built (seen := Set{}) and
\* the loop starts with i := 2.
CallbackHeaderOk ==
    /\ pc = "callback"
    /\ HeaderCheck(Table, rows.Headers) = "nil"
    /\ seen' = EmptyMap
    /\ rowNum' = 2
    /\ keys' = {}
    /\ dupRow' = 0
    /\ failedRow' = <<>>
    /\ pc' = "rows"
    /\ UNCHANGED <<schema, err, checkVars, ti, repoVars, pulled, requested, ends,
                   setVars>>

\* The key of a row that repeats one of `keys`, for the history dupRow.
Repeats(row) ==
    /\ Table.PrimaryKey # <<>>
    /\ PkeyBuf(tableCheckers[Table.Name].pkeyCols, row) \in keys

\* Lines 233-244: rows.Next() reads the record rec and returns true, and the
\* row checks run on it: they pass (i++), one fails (the callback returns its
\* error) or ValidateDataType panics.  csv.NewReader leaves FieldsPerRecord 0,
\* so Read returns records of the header's length only.
RowsNextRow(rec) ==
    /\ pc = "rows"
    /\ rows.Err = ""
    /\ rowNum - 2 < MaxRows
    /\ Len(rec) = Len(rows.Headers)
    /\ pulled' = pulled + 1
    /\ LET r == RowChecks(Table, tableCheckers[Table.Name].pkeyCols, seen, rec)
       IN  /\ seen' = r.seen
           /\ IF r.kind = "nil"
              THEN /\ rowNum' = rowNum + 1
                   /\ keys' = IF Table.PrimaryKey # <<>>
                              THEN keys \cup {PkeyBuf(tableCheckers[Table.Name].pkeyCols, rec)}
                              ELSE keys
                   /\ dupRow' = IF dupRow = 0 /\ Repeats(rec) THEN rowNum ELSE dupRow
                   /\ UNCHANGED <<pc, cbErr, openFiles, failedRow>>
              ELSE IF r.kind = "panic"
              THEN /\ pc' = "panic"
                   /\ openFiles' = DeferClose(openFiles, Table.Name)
                   /\ UNCHANGED <<rowNum, keys, dupRow, cbErr, failedRow>>
              ELSE /\ cbErr' = Err(r.kind, Table.Name, rowNum)
                   /\ failedRow' = rec
                   /\ pc' = "return"
                   /\ UNCHANGED <<rowNum, keys, dupRow, openFiles>>
    /\ UNCHANGED <<schema, err, checkVars, ti, wtRows, rows, requested, ends, setVars>>

\* Lines 233 and 246: rows.Next() returns false, having set rows.Err to e in
\* the callback's copy of rows (io.EOF at the end of the data, a parse error,
\* or csv.ErrFieldCount for a record that is not of the header's length), and
\* the callback returns nil.
RowsNextEnd(e) ==
    /\ pc = "rows"
    /\ rows.Err = ""
    /\ e = "ErrFieldCount" => \E rec \in Records : Len(rec) # Len(rows.Headers)
    /\ rows' = [rows EXCEPT !.Err = e]
    /\ pulled' = pulled + 1
    /\ ends' = Append(ends, e)
    /\ cbErr' = Nil
    /\ pc' = "return"
    /\ UNCHANGED <<schema, err, checkVars, ti, openFiles, wtRows, seen, rowNum, keys,
                   dupRow, failedRow, requested, setVars>>

\* WithTable, lines 57-65 and the deferred Close, and lines 247-249 of
\* Validate: an error ends Validate, nil moves on to the next table.  The
\* locals of WithTable and of the callback end with the call.
WithTableReturn ==
    /\ pc = "return"
    /\ openFiles' = DeferClose(openFiles, Table.Name)
    /\ LET e == WithTableResult(Table.Name, cbErr, wtRows.Err)
       IN  IF e # Nil
           THEN /\ err' = e
                /\ pc' = "done"
                /\ UNCHANGED ti
           ELSE /\ ti' = ti + 1
                /\ pc' = "table"
                /\ UNCHANGED err
    /\ wtRows' = NoRows
    /\ rows' = NoRows
    /\ cbErr' = Nil
    /\ seen' = EmptyMap
    /\ rowNum' = 2
    /\ pulled' = 0
    /\ keys' = {}
    /\ dupRow' = 0
    /\ failedRow' = <<>>
    /\ UNCHANGED <<schema, checkVars, requested, ends, setVars>>

\* Line 251: return nil.
ValidateReturn ==
    /\ pc = "table"
    /\ ti > Len(schema)
    /\ pc' = "done"
    /\ UNCHANGED <<schema, err, checkVars, ti, repoVars, rowVars, requested, ends,
                   setVars>>

Next ==
    \/ ValidateSchemaError
    \/ ValidateSchemaOk
    \/ WithTableIllegal
    \/ WithTableOpenError
    \/ WithTableOpen
    \/ \E e \in {"EOF", "ParseError"} : OpenTableError(e)
    \/ \E h \in Headers : OpenTableOk(h)
    \/ CallbackHeaderError
    \/ CallbackHeaderOk
    \/ \E rec \in Records : RowsNextRow(rec)
    \/ \E e \in {"EOF", "ParseError", "ErrFieldCount"} : RowsNextEnd(e)
    \/ WithTableReturn
    \/ ValidateReturn

Spec == Init /\ [][Next]_vars

\* ------------------------------------------------------------------ claims

Reverse(s) == [i \in 1..Len(s) |-> s[Len(s) + 1 - i]]

\* Some table of sch has a foreign key whose foreign table is declared later
\* in sch.
HasForwardReference(sch) ==
    \E i \in 1..Len(sch) : \E k \in 1..Len(sch[i].ForeignKeys) :
        \E j \in (i + 1)..Len(sch) :
            sch[i].ForeignKeys[k].ForeignTable = sch[j].Name

\* C1: checkSchemaConsistency resolves a foreign table against the entire
\* schema, whatever the declaration order: a schema with a foreign key that
\* references a table declared later, and that is accepted with its tables
\* declared in the opposite order, is accepted too (no "table not found").
C1_ForwardReferenceAccepted ==
    (pc = "checked" /\ HasForwardReference(schema)
        /\ checkSchemaConsistency(Reverse(schema)).err = Nil)
    => err = Nil

\* The table of sch named name (sch has exactly one when this is used).
TableNamed(sch, name) == CHOOSE t \in {sch[i] : i \in 1..Len(sch)} : t.Name = name

\* C2: a schema is accepted only if every foreign key mapping's
\* ForeignColumn is the foreign table's primary key exactly: the same
\* length, the same names, the same order; and Column.Equal is true exactly
\* of such pairs.
C2_ForeignColumnIsPrimaryKey ==
    (pc = "checked" /\ err = Nil)
    => \A i \in 1..Len(schema) : \A k \in 1..Len(schema[i].ForeignKeys) :
          LET fkm == schema[i].ForeignKeys[k]
              pkey == TableNamed(schema, fkm.ForeignTable).PrimaryKey
          IN  /\ fkm.ForeignColumn = pkey
              /\ ColumnEqual(fkm.ForeignColumn, pkey) <=> (fkm.ForeignColumn = pkey)

\* C3: when a table's row stream stops because reading a row failed (not
\* because the data ended), Validate returns an error.
C3_ReadFailureSurfaces ==
    (pc = "done" /\ \E j \in 1..Len(ends) : ends[j] # "EOF")
    => err # Nil

\* Two tables of sch share a name.
HasDuplicateTableName(sch) ==
    \E i, j \in 1..Len(sch) : i < j /\ sch[i].Name = sch[j].Name

\* C4: for a schema with two tables of the same name Validate fails with
\* the error "Table exists", whatever else is wrong with the schema, and no
\* table is requested from the repo.
C4_DuplicateTableNameFirst ==
    (pc = "done" /\ HasDuplicateTableName(schema))
    => (err.kind = "TableExists" /\ requested = <<>>)

\* C5: in a table with a primary key, a row that passes the cell count,
\* type and not-null checks and whose key tuple repeats that of an earlier
\* row fails the primary key check at its own row number: no such row
\* passes the row checks (dupRow stays 0), and a duplicate key error carries
\* the number of the row being checked.
C5_DuplicateKeyReported ==
    /\ dupRow = 0
    /\ cbErr.kind = "DuplicateKey" => cbErr.row = rowNum

\* C6: for the Set reached by any sequence of Put calls: Exists(t) is false
\* for every non-empty tuple t that was never Put, true for every non-empty
\* tuple that was Put, unchanged on every tuple by a second Put(t), and
\* false for the empty tuple.
C6_SetMembership ==
    pc = "set" =>
        /\ \A t \in Tuples \ putLog : t # <<>> => ~SetExists(seen, t)
        /\ \A t \in putLog : t # <<>> => SetExists(seen, t)
        /\ \A t \in putLog : \A u \in Tuples :
              SetExists(SetPut(seen, t), u) = SetExists(seen, u)
        /\ ~SetExists(seen, <<>>)

\* The tables requested so far are the first tables of the schema, in order.
RequestedInSchemaOrder ==
    /\ Len(requested) <= Len(schema)
    /\ \A j \in 1..Len(requested) : requested[j] = schema[j].Name

\* Every table requested before the last one was validated to the end of its
\* data (its loop ended on io.EOF) without error.
EarlierTablesExhausted ==
    \A j \in 1..(Len(requested) - 1) : j <= Len(ends) /\ ends[j] = "EOF"

\* C7: Validate is fail-fast and ordered: tables are requested in schema
\* order; once a check has failed (the callback has an error) or Validate has
\* an error, no further row is pulled and no further table is requested, and
\* a failed check's error is the error Validate returns; and a table is
\* requested only after every earlier table was validated to exhaustion
\* without error.
C7_FailFastInOrder ==
    /\ [](RequestedInSchemaOrder /\ EarlierTablesExhausted)
    /\ [][(cbErr # Nil \/ err # Nil)
            => (pulled' <= pulled /\ requested' = requested)]_vars
    /\ [][cbErr # Nil => (pc' = "done" /\ err' = cbErr)]_vars

\* The header read is exactly the declared column names, in order.
HeaderMatches(table, headers) ==
    /\ Len(headers) = Len(table.Columns)
    /\ \A i \in 1..Len(headers) : headers[i] = table.Columns[i].Name

\* The header read is a rearrangement of the declared column names that is
\* not the declared order.
HeaderPermuted(table, headers) ==
    /\ Len(headers) = Len(table.Columns)
    /\ {headers[i] : i \in 1..Len(headers)}
         = {table.Columns[i].Name : i \in 1..Len(table.Columns)}
    /\ ~HeaderMatches(table, headers)

\* C8: header strictness.  The row loop is entered (and a row is pulled)
\* only under a header that equals the declared column names position by
\* position; under a header that is another permutation of them the callback
\* returns a header mismatch error and no row has been read.
C8_HeaderStrict ==
    /\ (pc \in {"rows", "panic"} \/ pulled > 0) => HeaderMatches(Table, rows.Headers)
    /\ (pc \in {"rows", "return", "panic"} /\ HeaderPermuted(Table, rows.Headers))
        => (pc = "return" /\ cbErr = Err("HeaderName", Table.Name, 0) /\ pulled = 0)

\* C8 witness: the callback has returned under the header (name, id) of a
\* table that declares (id, name).
C8_Witness ==
    /\ pc = "return"
    /\ rows.Headers = <<"name", "id">>
    /\ HeaderPermuted(Table, rows.Headers)
    /\ cbErr.kind = "HeaderName"

\* C9: resource scoping of WithTable.  A file is open only between os.Open
\* and the return of WithTable for the table of the current iteration; so
\* at most one file is open, and none is open between tables, after a panic
\* has unwound WithTable, or once Validate has returned.
C9_FileScoped ==
    /\ Cardinality(openFiles) <= 1
    /\ openFiles # {} => (pc \in {"opened", "callback", "rows", "return"}
                            /\ openFiles = {Table.Name})
    /\ pc \in {"opened", "callback", "rows", "return"} => openFiles = {Table.Name}

\* C9 witness: Validate has returned the header error of the second table,
\* whose file was opened after the first table's stream stopped on a read
\* failure, and no file is open.
C9_Witness ==
    /\ pc = "done"
    /\ Len(requested) = 2
    /\ ends = <<"ParseError">>
    /\ err.kind = "HeaderName"
    /\ openFiles = {}

\* Some column of sch declares a type outside int, string, bool.
HasInvalidType(sch) ==
    \E i \in 1..Len(sch) : \E c \in 1..Len(sch[i].Columns) :
        sch[i].Columns[c].Type \notin {DataTypeInt, DataTypeString, DataTypeBool}

\* C10: a schema with a column of a type outside the closed set never makes
\* Validate panic: Validate returns, and it returns an error whether or not
\* the table has data rows.
C10_InvalidTypeIsAnError ==
    /\ pc # "panic"
    /\ (pc = "done" /\ HasInvalidType(schema)) => err # Nil

\* The first column, from i on, whose cell of row fails ValidateDataType
\* (0 when there is none).
RECURSIVE FirstTypeErrorColumn(_, _, _)
FirstTypeErrorColumn(table, row, i) ==
    IF i > Len(table.Columns) THEN 0
    ELSE IF ValidateDataType(table.Columns[i].Type, row[i]) # "nil" THEN i
    ELSE FirstTypeErrorColumn(table, row, i + 1)

\* C11: null handling is governed by the notNull flag alone.  When a row
\* check fails on a row, a type error is never about an empty cell (an empty
\* cell passes the checks of a column with notNull = false, whatever its
\* type, and is a null violation, not a type error, in a column with
\* notNull = true), and a null violation is about an empty cell of a column
\* with notNull = true.
C11_NullByNotNullOnly ==
    (pc = "return" /\ failedRow # <<>> /\ Len(failedRow) = Len(Table.Columns))
    => /\ cbErr.kind = "Type"
            => failedRow[FirstTypeErrorColumn(Table, failedRow, 1)] # <<>>
       /\ cbErr.kind = "Null"
            => \E c \in 1..Len(Table.Columns) :
                  Table.Columns[c].NotNull /\ failedRow[c] = <<>>

====
